---- MODULE Spec2Model ----
(***************************************************************************)
(* Model of the data-access object that gorma's userTypeT template         *)
(* (writers.go) generates for one resource type: the <Type>DB struct with  *)
(* its gorm storage handle, its optional go-cache read-through cache, the  *)
(* CRUD operations, the belongs-to scoped queries and the many-to-many     *)
(* association mutators.  Every `go ...` statement of the template is a    *)
(* pending task that runs at any later moment.  The module also models the *)
(* New<Context> constructor that ctxNewT and coerceT (writers.go) generate *)
(* for one action, the response helpers of ctxRespT, the text that         *)
(* ContextsWriter.Execute renders, and the Generator: its Generate pass,   *)
(* the goroutine the pass starts, and generateContexts.                    *)
(*                                                                         *)
(* The storage handle (gorm) and the cache (go-cache) are libraries: a     *)
(* storage call either succeeds or returns an error value, Find of an      *)
(* absent row returns RecordNotFound, and cache entries are not expired    *)
(* within the window the model covers (shorter than the 5 minute default   *)
(* expiration set by New<Type>DB).                                         *)
(***************************************************************************)
EXTENDS Integers, Sequences, FiniteSets, Bags, TLC

VARIABLES
    Options,  \* ModelOptions: Cached, DynamicTableName
    Db,       \* m.Db: per table, the rows by primary key
    assoc,    \* the join table of the many-to-many relation
    cache,    \* m.cache: the entries by key
    tasks,    \* the goroutines started and not yet run
    ret,      \* the last call: its arguments, results, storage calls, goroutines
    bg,       \* the last background refresh: the storage calls it made
    data,     \* ContextTemplateData: the action whose constructor is generated
    call,     \* the last call of New<Context>: the request and what it returned
    helper,   \* the running call of a response helper: its position and effects
    TempCount, \* codegen.TempCount: the temporaries named so far in the process
    written,  \* what each call of ContextsWriter.Execute rendered, in order
    api,      \* the APIDefinition handed to Generate
    genfiles, \* g.genfiles
    disk,     \* the files below the output directory: what each one holds
    out,      \* what the last call of Generate returned
    resource, \* the ResourceDefinition of the API: its responses and actions
    contexts, \* the ContextTemplateData generateContexts handed to Execute
    pass      \* the running pass of Generate and the goroutine it started

dbVars == <<Options, Db, assoc, cache, tasks, ret, bg>>
ctxVars == <<data, call, helper, TempCount, written>>
genVars == <<api, genfiles, disk, out, resource, contexts, pass>>
vars == <<dbVars, ctxVars, genVars>>

(***************************************************************************)
(* Bounds                                                                  *)
(***************************************************************************)
MaxKey == 1
MaxRow == 2
MaxParent == 2
MaxVal == 2
MaxRelated == 2
MaxTasks == 2
MaxLen == 2
MaxElems == 2
MaxTypes == 2
MaxName == 2
MaxContexts == 4
MaxActions == 2
MaxRenders == 2
MaxRoutes == 2
MaxTemps == 4

\* the keys the storage assigns, and the keys callers choose themselves
Keys == 1..MaxKey
RowIDs == 1..MaxRow
ParentIDs == 1..MaxParent
Vals == 1..MaxVal
RelatedIDs == 1..MaxRelated

(***************************************************************************)
(* Values                                                                  *)
(***************************************************************************)
\* error values: Go's nil, gorm.RecordNotFound, any other storage failure
Nil == "nil"
RecordNotFound == "record not found"
ErrStorage == "storage failure"

\* the table baked in at generation time and the names a caller may pass
FixedTable == "widgets"
TableNames == {"widgets", "widgets_archive"}
NoTable == "(no table)"

\* var obj <Type>: the Go zero value of the model struct
ZeroObj == [ID |-> 0, ParentID |-> 0, Val |-> 0]

EmptyMap == [x \in {} |-> 0]

Digits == <<"0", "1", "2", "3", "4", "5", "6", "7", "8", "9">>

RECURSIVE Itoa(_)
\* strconv.Itoa: the decimal text of an int, one character per element
Itoa(n) ==
    IF n < 0 THEN <<"-">> \o Itoa(-n)
    ELSE IF n < 10 THEN <<Digits[n + 1]>>
    ELSE Itoa(n \div 10) \o <<Digits[(n % 10) + 1]>>

(***************************************************************************)
(* go-cache                                                                *)
(***************************************************************************)
\* m.cache.Get(k): (value, found)
cacheGet(k) ==
    IF k \in DOMAIN cache THEN [o |-> cache[k], found |-> TRUE]
    ELSE [o |-> ZeroObj, found |-> FALSE]

\* m.cache.Set(k, x, cache.DefaultExpiration)
cacheSet(c, k, x) == [y \in (DOMAIN c) \cup {k} |-> IF y = k THEN x ELSE c[y]]

\* m.cache.Delete(k)
cacheDelete(c, k) == [y \in (DOMAIN c) \ {k} |-> c[y]]

\* the pending `go ...` statements
SetTask(k, x) ==
    [kind |-> "Set", key |-> k, obj |-> x, id |-> 0, table |-> NoTable,
     supplied |-> NoTable]
DeleteTask(k) ==
    [kind |-> "Delete", key |-> k, obj |-> ZeroObj, id |-> 0, table |-> NoTable,
     supplied |-> NoTable]
RefreshTask(t, supplied, i) ==
    [kind |-> "Refresh", key |-> <<>>, obj |-> ZeroObj, id |-> i, table |-> t,
     supplied |-> supplied]

Spawn(ts) == tasks (+) SetToBag(ts)

Room(ts) == BagCardinality(tasks) + Cardinality(ts) <= MaxTasks

(***************************************************************************)
(* gorm                                                                    *)
(***************************************************************************)
\* m.Db or m.Db.Table(tableName): the table a storage call is scoped to
Table(tableName) == IF Options.DynamicTableName THEN tableName ELSE FixedTable

\* the error values .Find(&obj, id).Error can yield on the rows `rows`
FindErrors(rows, id) ==
    IF id \in DOMAIN rows THEN {Nil, ErrStorage} ELSE {RecordNotFound, ErrStorage}

\* the error values any other storage call can yield
CallErrors == {Nil, ErrStorage}

Access(kind, t, key, e) == [kind |-> kind, table |-> t, key |-> key, err |-> e]

\* what a call hands back to its caller, and what it did on the way
Return(op, t, id, parentid, obj, objs, err, found, accesses, spawned) ==
    [op |-> op, table |-> t, id |-> id, parentid |-> parentid, obj |-> obj,
     objs |-> objs, err |-> err, found |-> found, accesses |-> accesses,
     spawned |-> spawned]

NoCall == Return("none", NoTable, 0, 0, ZeroObj, {}, Nil, FALSE, <<>>, {})

(***************************************************************************)
(* One                                                                     *)
(***************************************************************************)
\* One without its cache lookup: every call goes to storage
fetchOneSkipsCache(tableName, id, e) ==
    LET obj == IF e = Nil THEN Db[Table(tableName)][id] ELSE ZeroObj
    IN  [obj |-> obj, err |-> e, found |-> FALSE,
         accesses |-> <<Access("Find", Table(tableName), id, e)>>,
         spawned |-> IF Options.Cached THEN {SetTask(Itoa(id), obj)} ELSE {}]

\* the body of One, given the error e its Find yields
fetchOne(tableName, id, e) ==
    LET c == cacheGet(Itoa(id))
        obj == IF e = Nil THEN Db[Table(tableName)][id] ELSE ZeroObj
    IN  IF Options.Cached /\ c.found
        THEN [obj |-> c.o, err |-> Nil, found |-> TRUE, accesses |-> <<>>,
              spawned |-> {}]
        ELSE [obj |-> obj, err |-> e, found |-> FALSE,
              accesses |-> <<Access("Find", Table(tableName), id, e)>>,
              spawned |-> IF Options.Cached THEN {SetTask(Itoa(id), obj)} ELSE {}]

One(tableName, id) ==
    \E e \in FindErrors(Db[Table(tableName)], id) :
        LET r == fetchOne(tableName, id, e)
        IN  /\ Room(r.spawned)
            /\ tasks' = Spawn(r.spawned)
            /\ ret' = Return("One", tableName, id, 0, r.obj, {}, r.err, r.found,
                             r.accesses, r.spawned)
            /\ UNCHANGED <<ctxVars, genVars, Options, Db, assoc, cache, bg>>

(***************************************************************************)
(* Add                                                                     *)
(***************************************************************************)
\* the keys .Create(&model) can store the row under: the one the model
\* carries, or one the storage assigns when the model carries none
CreateKeys(rows, model) ==
    IF model.ID = 0 THEN Keys \ DOMAIN rows ELSE {model.ID} \ DOMAIN rows

Add(tableName, model) ==
    \E e \in CallErrors, k \in CreateKeys(Db[Table(tableName)], model) \cup {0} :
        LET t == Table(tableName)
            saved == IF e = Nil THEN [model EXCEPT !.ID = k] ELSE model
            spawned == IF Options.Cached THEN {SetTask(Itoa(saved.ID), saved)} ELSE {}
        IN  /\ (e = Nil) <=> (k # 0)
            /\ Room(spawned)
            /\ Db' = IF e = Nil THEN [Db EXCEPT ![t] = cacheSet(Db[t], k, saved)] ELSE Db
            /\ tasks' = Spawn(spawned)
            /\ ret' = Return("Add", tableName, model.ID, 0, saved, {}, e, FALSE,
                             <<Access("Create", t, model.ID, e)>>, spawned)
            /\ UNCHANGED <<ctxVars, genVars, Options, assoc, cache, bg>>

(***************************************************************************)
(* Update                                                                  *)
(***************************************************************************)
\* .Model(&obj).Updates(model): the non-zero fields of model written over the
\* row that has the primary key of obj; no row is written when none has it
Updates(row, model) ==
    [ID |-> row.ID,
     ParentID |-> IF model.ParentID # 0 THEN model.ParentID ELSE row.ParentID,
     Val |-> IF model.Val # 0 THEN model.Val ELSE row.Val]

\* the table name the background refresh hands to One: its call is
\* m.One(ctx, model.ID), which names no table
RefreshTable(tableName) == NoTable

Update(tableName, model) ==
    \E e1 \in FindErrors(Db[Table(tableName)], model.ID), e2 \in CallErrors :
        LET t == Table(tableName)
            r == fetchOne(tableName, model.ID, e1)
            fetched == r.err = Nil
            refresh == IF fetched /\ Options.Cached
                       THEN {RefreshTask(RefreshTable(tableName), tableName, model.ID)}
                       ELSE {}
            spawned == r.spawned \cup refresh
            err == IF fetched THEN e2 ELSE r.err
        IN  /\ Room(spawned)
            /\ Db' = IF fetched /\ e2 = Nil /\ r.obj.ID \in DOMAIN Db[t]
                     THEN [Db EXCEPT ![t][r.obj.ID] = Updates(Db[t][r.obj.ID], model)]
                     ELSE Db
            /\ tasks' = Spawn(spawned)
            /\ ret' = Return("Update", tableName, model.ID, 0, r.obj, {}, err, r.found,
                             IF fetched
                             THEN r.accesses \o <<Access("Updates", t, r.obj.ID, e2)>>
                             ELSE r.accesses,
                             spawned)
            /\ UNCHANGED <<ctxVars, genVars, Options, assoc, cache, bg>>

(***************************************************************************)
(* Delete                                                                  *)
(***************************************************************************)
\* Delete with the eviction started before the error check
DeleteEvictsAlways(tableName, id) ==
    \E e \in CallErrors :
        LET t == Table(tableName)
            spawned == IF Options.Cached THEN {DeleteTask(Itoa(id))} ELSE {}
        IN  /\ Room(spawned)
            /\ Db' = IF e = Nil THEN [Db EXCEPT ![t] = cacheDelete(Db[t], id)] ELSE Db
            /\ tasks' = Spawn(spawned)
            /\ ret' = Return("Delete", tableName, id, 0, ZeroObj, {}, e, FALSE,
                             <<Access("Delete", t, id, e)>>, spawned)
            /\ UNCHANGED <<ctxVars, genVars, Options, assoc, cache, bg>>

Delete(tableName, id) ==
    \E e \in CallErrors :
        LET t == Table(tableName)
            spawned == IF e = Nil /\ Options.Cached THEN {DeleteTask(Itoa(id))} ELSE {}
        IN  /\ Room(spawned)
            /\ Db' = IF e = Nil THEN [Db EXCEPT ![t] = cacheDelete(Db[t], id)] ELSE Db
            /\ tasks' = Spawn(spawned)
            /\ ret' = Return("Delete", tableName, id, 0, ZeroObj, {}, e, FALSE,
                             <<Access("Delete", t, id, e)>>, spawned)
            /\ UNCHANGED <<ctxVars, genVars, Options, assoc, cache, bg>>

(***************************************************************************)
(* Belongs-to relationships                                                *)
(***************************************************************************)
\* the scope with the test parentid >= 0 in place of parentid > 0
FilterByParentFromZero(parentid, rows) ==
    IF parentid >= 0 THEN {o \in rows : o.ParentID = parentid} ELSE rows

\* <Type>FilterBy<Parent>(parentid, db): the scope, applied to a set of rows
FilterByParent(parentid, rows) ==
    IF parentid > 0 THEN {o \in rows : o.ParentID = parentid} ELSE rows

AllRows(t) == {Db[t][k] : k \in DOMAIN Db[t]}

ListByParent(tableName, parentid) ==
    \E e \in CallErrors :
        LET t == Table(tableName)
            objs == IF e = Nil THEN FilterByParent(parentid, AllRows(t)) ELSE {}
        IN  /\ ret' = Return("ListByParent", tableName, 0, parentid, ZeroObj, objs, Nil,
                             FALSE, <<Access("FindAll", t, 0, e)>>, {})
            /\ UNCHANGED <<ctxVars, genVars, Options, Db, assoc, cache, tasks, bg>>

\* the rows of table t the scope leaves, as a map from key to row
Scoped(t, parentid) ==
    LET ks == {k \in DOMAIN Db[t] : Db[t][k] \in FilterByParent(parentid, AllRows(t))}
    IN  [k \in ks |-> Db[t][k]]

OneByParent(tableName, parentid, id) ==
    \E e \in FindErrors(Scoped(Table(tableName), parentid), id) :
        LET t == Table(tableName)
            c == cacheGet(Itoa(id))
            hit == Options.Cached /\ c.found
            obj == IF e = Nil THEN Db[t][id] ELSE ZeroObj
            spawned == IF Options.Cached /\ ~hit THEN {SetTask(Itoa(id), obj)} ELSE {}
        IN  /\ Room(spawned)
            /\ tasks' = Spawn(spawned)
            /\ ret' = IF hit
                      THEN Return("OneByParent", tableName, id, parentid, c.o, {}, Nil,
                                  TRUE, <<>>, {})
                      ELSE Return("OneByParent", tableName, id, parentid, obj, {}, e,
                                  FALSE, <<Access("Find", t, id, e)>>, spawned)
            /\ UNCHANGED <<ctxVars, genVars, Options, Db, assoc, cache, bg>>

(***************************************************************************)
(* Many-to-many relationships                                              *)
(***************************************************************************)
AddRelation(tableName, ownerID, relatedID) ==
    \E e \in CallErrors :
        /\ assoc' = IF e = Nil THEN assoc \cup {<<ownerID, relatedID>>} ELSE assoc
        /\ ret' = Return("AddRelation", tableName, ownerID, relatedID, ZeroObj, {}, e,
                         FALSE, <<Access("Append", Table(tableName), ownerID, e)>>, {})
        /\ UNCHANGED <<ctxVars, genVars, Options, Db, cache, tasks, bg>>

\* Delete<Relation> clearing every association of the owner
DeleteRelationClears(tableName, ownerID, relatedID) ==
    \E e \in CallErrors :
        /\ assoc' = IF e = Nil THEN {q \in assoc : q[1] # ownerID} ELSE assoc
        /\ ret' = Return("DeleteRelation", tableName, ownerID, relatedID, ZeroObj, {}, e,
                         FALSE, <<Access("AssocDelete", Table(tableName), ownerID, e)>>, {})
        /\ UNCHANGED <<ctxVars, genVars, Options, Db, cache, tasks, bg>>

DeleteRelation(tableName, ownerID, relatedID) ==
    \E e \in CallErrors :
        /\ assoc' = IF e = Nil THEN assoc \ {<<ownerID, relatedID>>} ELSE assoc
        /\ ret' = Return("DeleteRelation", tableName, ownerID, relatedID, ZeroObj, {}, e,
                         FALSE, <<Access("AssocDelete", Table(tableName), ownerID, e)>>, {})
        /\ UNCHANGED <<ctxVars, genVars, Options, Db, cache, tasks, bg>>

\* .Model(&obj).Association(...).Find(&list): the related ids of the owner
Associated(ownerID) == {p[2] : p \in {q \in assoc : q[1] = ownerID}}

ListRelations(tableName, ownerID) ==
    \E e \in CallErrors :
        LET list == IF e = Nil THEN Associated(ownerID) ELSE {}
        IN  /\ ret' = Return("ListRelations", tableName, ownerID, 0, ZeroObj, list, Nil,
                             FALSE, <<Access("AssocFind", Table(tableName), ownerID, e)>>, {})
            /\ UNCHANGED <<ctxVars, genVars, Options, Db, assoc, cache, tasks, bg>>

(***************************************************************************)
(* Multi-column primary keys                                               *)
(***************************************************************************)
\* the key columns of a type keyed by its id and its parent id, in the order
\* of their declaration
PrimaryKeys == <<"ID", "ParentID">>

\* the key tuple of a row
pkTuple(pks, row) == [i \in DOMAIN pks |-> row[pks[i]]]

\* pkwhere: one "column = ?" fragment per key column, joined by AND
pkWhere(pks) == [i \in DOMAIN pks |-> <<pks[i], "= ?">>]

\* pkwherefields: the arguments of the fragments, in the order of the columns
pkWhereFields(pks, id, parentid) ==
    [i \in DOMAIN pks |-> IF pks[i] = "ID" THEN id ELSE parentid]

\* .Find(&obj) on a zero obj: the statement has no condition and runs at once;
\* every row of the table is scanned into obj in turn, so that obj ends as one
\* of them
FindUnconditioned(rows) ==
    {[obj |-> ZeroObj, err |-> ErrStorage, cond |-> <<>>]} \cup
    (IF DOMAIN rows = {}
     THEN {[obj |-> ZeroObj, err |-> RecordNotFound, cond |-> <<>>]}
     ELSE {[obj |-> rows[k], err |-> Nil, cond |-> <<>>] : k \in DOMAIN rows})

\* .Delete(&obj) on a zero obj: the statement has no condition and runs at
\* once; it deletes every row of the table
DeleteUnconditioned(rows) ==
    {[rows |-> rows, err |-> ErrStorage, cond |-> <<>>],
     [rows |-> EmptyMap, err |-> Nil, cond |-> <<>>]}

\* .Where(query, args...) on the handle of a statement that has run: a handle
\* that carries the condition and the error of that statement; no statement
\* runs
Where(done, query, args) ==
    [done EXCEPT !.cond = [i \in DOMAIN query |-> <<query[i], args[i]>>]]

\* One of a type with several key columns
OnePks(tableName, id, parentid) ==
    \E f \in FindUnconditioned(Db[Table(tableName)]) :
        LET c == cacheGet(Itoa(id))
            q == Where(f, pkWhere(PrimaryKeys),
                       pkWhereFields(PrimaryKeys, id, parentid))
            hit == Options.Cached /\ c.found
            spawned == IF Options.Cached /\ ~hit
                       THEN {SetTask(Itoa(id), q.obj)} ELSE {}
        IN  /\ Room(spawned)
            /\ tasks' = Spawn(spawned)
            /\ ret' = IF hit
                      THEN Return("One", tableName, id, parentid, c.o, {}, Nil,
                                  TRUE, <<>>, {})
                      ELSE Return("One", tableName, id, parentid, q.obj, {},
                                  q.err, FALSE,
                                  <<Access("Find", Table(tableName), <<>>, q.err)>>,
                                  spawned)
            /\ UNCHANGED <<ctxVars, genVars, Options, Db, assoc, cache, bg>>

\* Add of a type with several key columns
AddPks(tableName, model) ==
    \E e \in CallErrors :
        LET t == Table(tableName)
            k == pkTuple(PrimaryKeys, model)
            spawned == IF Options.Cached THEN {SetTask(Itoa(model.ID), model)} ELSE {}
        IN  /\ (e = Nil) => k \notin DOMAIN Db[t]
            /\ Room(spawned)
            /\ Db' = IF e = Nil THEN [Db EXCEPT ![t] = cacheSet(Db[t], k, model)] ELSE Db
            /\ tasks' = Spawn(spawned)
            /\ ret' = Return("Add", tableName, model.ID, model.ParentID, model, {},
                             e, FALSE, <<Access("Create", t, k, e)>>, spawned)
            /\ UNCHANGED <<ctxVars, genVars, Options, assoc, cache, bg>>

\* Delete of a type with several key columns
DeletePks(tableName, id, parentid) ==
    \E d \in DeleteUnconditioned(Db[Table(tableName)]) :
        LET t == Table(tableName)
            q == Where(d, pkWhere(PrimaryKeys),
                       pkWhereFields(PrimaryKeys, id, parentid))
            spawned == IF q.err = Nil /\ Options.Cached
                       THEN {DeleteTask(Itoa(id))} ELSE {}
        IN  /\ Room(spawned)
            /\ Db' = [Db EXCEPT ![t] = q.rows]
            /\ tasks' = Spawn(spawned)
            /\ ret' = Return("Delete", tableName, id, parentid, ZeroObj, {}, q.err,
                             FALSE, <<Access("Delete", t, <<>>, q.err)>>, spawned)
            /\ UNCHANGED <<ctxVars, genVars, Options, assoc, cache, bg>>

(***************************************************************************)
(* The goroutines                                                          *)
(***************************************************************************)
\* go m.cache.Set(...)
RunSet(task) ==
    /\ task.kind = "Set"
    /\ BagIn(task, tasks)
    /\ cache' = cacheSet(cache, task.key, task.obj)
    /\ tasks' = tasks (-) SetToBag({task})
    /\ UNCHANGED <<ctxVars, genVars, Options, Db, assoc, ret, bg>>

\* go m.cache.Delete(...)
RunDelete(task) ==
    /\ task.kind = "Delete"
    /\ BagIn(task, tasks)
    /\ cache' = cacheDelete(cache, task.key)
    /\ tasks' = tasks (-) SetToBag({task})
    /\ UNCHANGED <<ctxVars, genVars, Options, Db, assoc, ret, bg>>

\* the tables a call of One can read when it is handed the name t; a call
\* that names no table where One expects one leaves its parameter unbound
Bound(t) ==
    IF Options.DynamicTableName /\ t = NoTable THEN TableNames ELSE {t}

\* go func(){ obj, err := m.One(ctx, model.ID); if err == nil { m.cache.Set(...) } }()
\* up to the return of One; the Set is the task it leaves behind
RunRefresh(task) ==
    /\ task.kind = "Refresh"
    /\ BagIn(task, tasks)
    /\ \E tn \in Bound(task.table) :
       \E e \in FindErrors(Db[Table(tn)], task.id) :
        LET r == fetchOne(tn, task.id, e)
            set == IF r.err = Nil THEN {SetTask(Itoa(task.id), r.obj)} ELSE {}
            rest == tasks (-) SetToBag({task})
        IN  /\ BagCardinality(rest) + Cardinality(r.spawned) + Cardinality(set) <= MaxTasks
            /\ tasks' = (rest (+) SetToBag(r.spawned)) (+) SetToBag(set)
            /\ bg' = [supplied |-> task.supplied, accesses |-> r.accesses]
    /\ UNCHANGED <<ctxVars, genVars, Options, Db, assoc, cache, ret>>

(***************************************************************************)
(* Strings and strconv                                                     *)
(***************************************************************************)
\* a Go string is the sequence of its characters; the raw values of a
\* request are the strings over Chars of at most MaxLen characters
Chars == {"0", "1", "-", ".", ",", "t", "x"}

Strings(n) == UNION {[1..l -> Chars] : l \in 0..n}

IsDigit(c) == \E d \in DOMAIN Digits : Digits[d] = c

DigitOf(c) == (CHOOSE d \in DOMAIN Digits : Digits[d] = c) - 1

AllDigits(s) == \A i \in DOMAIN s : IsDigit(s[i])

RECURSIVE ParseUint(_, _)
\* the number a string of decimal digits denotes, read from the left
ParseUint(s, acc) ==
    IF s = <<>> THEN acc ELSE ParseUint(Tail(s), 10 * acc + DigitOf(Head(s)))

ErrSyntax == "invalid syntax"

\* strconv.Atoi: an optional sign and one or more decimal digits; the strings
\* of the model are too short to leave the range of int
Atoi(s) ==
    LET signed == s # <<>> /\ Head(s) \in {"-", "+"}
        body == IF signed THEN Tail(s) ELSE s
    IN  IF body = <<>> \/ ~AllDigits(body) THEN [val |-> 0, err |-> ErrSyntax]
        ELSE [val |-> IF Head(s) = "-" THEN 0 - ParseUint(body, 0)
                      ELSE ParseUint(body, 0),
              err |-> Nil]

\* strconv.ParseBool
ParseBool(s) ==
    IF s \in {<<"1">>, <<"t">>, <<"T">>, <<"T", "R", "U", "E">>,
              <<"t", "r", "u", "e">>, <<"T", "r", "u", "e">>}
    THEN [val |-> TRUE, err |-> Nil]
    ELSE IF s \in {<<"0">>, <<"f">>, <<"F">>, <<"F", "A", "L", "S", "E">>,
                   <<"f", "a", "l", "s", "e">>, <<"F", "a", "l", "s", "e">>}
    THEN [val |-> FALSE, err |-> Nil]
    ELSE [val |-> FALSE, err |-> ErrSyntax]

RECURSIVE Float(_, _)
\* the float64 that is m / 10^e, as the pair of m and e with no trailing zero
\* in the fraction
Float(m, e) ==
    IF e > 0 /\ m % 10 = 0 THEN Float(m \div 10, e - 1) ELSE <<m, e>>

\* strconv.ParseFloat(s, 64) on a decimal without exponent: an optional sign,
\* digits, and an optional point followed by digits, with a digit somewhere
ParseFloat(s) ==
    LET signed == s # <<>> /\ Head(s) \in {"-", "+"}
        body == IF signed THEN Tail(s) ELSE s
        points == {i \in DOMAIN body : body[i] = "."}
        point == IF points = {} THEN Len(body) + 1 ELSE CHOOSE i \in points : TRUE
        whole == SubSeq(body, 1, point - 1)
        frac == SubSeq(body, point + 1, Len(body))
        m == ParseUint(whole \o frac, 0)
    IN  IF Cardinality(points) > 1 \/ whole \o frac = <<>>
           \/ ~AllDigits(whole \o frac)
        THEN [val |-> Float(0, 0), err |-> ErrSyntax]
        ELSE [val |-> Float(IF Head(s) = "-" THEN 0 - m ELSE m, Len(frac)),
              err |-> Nil]

RECURSIVE Split(_, _)
\* strings.Split(s, sep) for a separator of one character
Split(s, sep) ==
    LET seps == {i \in DOMAIN s : s[i] = sep}
        first == CHOOSE i \in seps : \A j \in seps : i <= j
    IN  IF seps = {} THEN <<s>>
        ELSE <<SubSeq(s, 1, first - 1)>> \o Split(SubSeq(s, first + 1, Len(s)), sep)

RECURSIVE Join(_, _)
\* strings.Join(a, sep)
Join(a, sep) ==
    IF a = <<>> THEN <<>>
    ELSE IF Len(a) = 1 THEN a[1]
    ELSE a[1] \o <<sep>> \o Join(Tail(a), sep)

(***************************************************************************)
(* goa errors                                                              *)
(***************************************************************************)
\* an error of the request; goa chains each new one to the error handed in,
\* and the nil error is the empty chain
ParamError(error, name, val, expected) ==
    [error |-> error, name |-> name, val |-> val, expected |-> expected]

\* InvalidParamTypeError that leaves the raw text out
InvalidParamTypeErrorWithoutValue(name, val, expected, err) ==
    Append(err, ParamError("InvalidParamType", name, <<>>, expected))

InvalidParamTypeError(name, val, expected, err) ==
    Append(err, ParamError("InvalidParamType", name, val, expected))

MissingParamError(name, err) ==
    Append(err, ParamError("MissingParam", name, <<>>, ""))

MissingHeaderError(name, err) ==
    Append(err, ParamError("MissingHeader", name, <<>>, ""))

PayloadError == <<ParamError("InvalidPayload", "payload", <<>>, "")>>

(***************************************************************************)
(* coerceT                                                                 *)
(***************************************************************************)
ScalarKinds == {"boolean", "integer", "number"}

\* an attribute: its kind and, for an array, the attribute of its elements
Attribute(kind, elem) == [kind |-> kind, elem |-> elem]

ArrayOf(kind) == Attribute("array", <<Attribute(kind, <<>>)>>)

\* arrayAttribute
arrayAttribute(att) == att.elem[1]

\* the parse call the template emits for a scalar kind
Parse(kind, raw) ==
    CASE kind = "boolean" -> ParseBool(raw)
      [] kind = "integer" -> Atoi(raw)
      [] kind = "number" -> ParseFloat(raw)

\* &v: a pointer to a copy of v
Ref(v) == <<v>>

\* the zero value of a field
Zero(att, pointer) ==
    IF pointer THEN <<>>
    ELSE CASE att.kind = "boolean" -> FALSE
           [] att.kind = "integer" -> 0
           [] att.kind = "number" -> Float(0, 0)
           [] OTHER -> <<>>

RECURSIVE Coerce(_, _, _, _, _, _)
\* the code of template "Coerce" for newCoerceData(name, att, pointer, pkg,
\* depth), run on the raw value: the value of the target pkg and the error
\* afterwards.  An array runs the code of its element kind on every element
\* in turn; a kind the template has no branch for runs no code.
Coerce(name, att, pointer, raw, target, err) ==
    IF att.kind \in ScalarKinds
    THEN LET p == Parse(att.kind, raw)
         IN  IF p.err = Nil
             THEN [val |-> IF pointer THEN Ref(p.val) ELSE p.val, err |-> err]
             ELSE [val |-> target,
                   err |-> InvalidParamTypeError(name, raw, att.kind, err)]
    ELSE IF att.kind \in {"string", "any"}
    THEN [val |-> IF pointer THEN Ref(raw) ELSE raw, err |-> err]
    ELSE IF att.kind # "array"
    THEN [val |-> target, err |-> err]
    ELSE LET elems == Split(raw, ",")
             elemAtt == arrayAttribute(att)
             Elem[i \in 0..Len(elems)] ==
                 IF i = 0 THEN [vals |-> <<>>, err |-> err]
                 ELSE LET c == Coerce("elem", elemAtt, FALSE, elems[i],
                                      Zero(elemAtt, FALSE), Elem[i - 1].err)
                      IN  [vals |-> Append(Elem[i - 1].vals, c.val), err |-> c.err]
         IN  IF elemAtt.kind = "string" THEN [val |-> elems, err |-> err]
             ELSE [val |-> Elem[Len(elems)].vals, err |-> Elem[Len(elems)].err]

(***************************************************************************)
(* ctxNewT                                                                 *)
(***************************************************************************)
\* a parameter of the action, and a header
Param(name, att, required) == [name |-> name, att |-> att, required |-> required]

Header(name, required) == [name |-> name, required |-> required]

\* c.Params.IsRequired(name)
IsRequired(d, name) ==
    \E i \in DOMAIN d.Params : d.Params[i].name = name /\ d.Params[i].required

\* c.Params.IsPrimitivePointer(name): an optional parameter of a primitive
\* kind is a pointer field
IsPrimitivePointer(d, name) ==
    \E i \in DOMAIN d.Params :
        /\ d.Params[i].name = name
        /\ ~d.Params[i].required
        /\ d.Params[i].att.kind # "array"

RECURSIVE scanRoutes(_, _, _)
\* the loop of IsPathParam over the routes that are left
scanRoutes(routes, param, pp) ==
    IF routes = <<>> THEN pp
    ELSE IF param \notin Head(routes) THEN FALSE
    ELSE scanRoutes(Tail(routes), param, TRUE)

\* IsPathParam that is content with one route
IsPathParamOfSomeRoute(d, param) ==
    d.Type = "object" /\ \E i \in DOMAIN d.Routes : param \in d.Routes[i]

\* c.IsPathParam(param): the routes are scanned when c.Params.Type is an
\* object
IsPathParam(d, param) ==
    IF d.Type = "object" THEN scanRoutes(d.Routes, param, FALSE) ELSE FALSE

\* a call of c.IsPathParam(param)
CallIsPathParam(param) ==
    /\ ~call.made
    /\ call' = [made |-> TRUE, param |-> param, pp |-> IsPathParam(data, param)]
    /\ UNCHANGED <<dbVars, data, helper, TempCount, written, genVars>>

\* MustValidate that leaves the routes out
MustValidateEveryRequired(d, name) == IsRequired(d, name)

MustValidate(d, name) == IsRequired(d, name) /\ ~IsPathParam(d, name)

\* the state of a running constructor: the fields of ctx, the error, and the
\* parameters the coercion code ran on
Running(fields, err, coerced) == [fields |-> fields, err |-> err, coerced |-> coerced]

\* goa.InvalidRangeError(name, val, min, true, err)
InvalidRangeError(name, val, min, err) ==
    Append(err, ParamError("InvalidRange", name, Itoa(val), Itoa(min)))

\* the code validationChecker renders for a parameter with a minimum, run on
\* the field: a pointer field is checked when it is not nil
validationChecker(d, p, st) ==
    LET f == st.fields[p.name]
        pointer == IsPrimitivePointer(d, p.name)
    IN  IF p.name \notin DOMAIN d.Minimum \/ (pointer /\ f = <<>>) THEN st
        ELSE LET v == IF pointer THEN f[1] ELSE f
             IN  IF v < d.Minimum[p.name]
                 THEN Running(st.fields,
                              InvalidRangeError(p.name, v, d.Minimum[p.name], st.err),
                              st.coerced)
                 ELSE st

\* the parameter block with the coercion code outside of its presence test
paramBlockCoercesAlways(d, p, raw, st) ==
    LET c == Coerce(p.name, p.att, IsPrimitivePointer(d, p.name), raw,
                    st.fields[p.name], st.err)
    IN  validationChecker(d, p, Running([st.fields EXCEPT ![p.name] = c.val], c.err,
                                        st.coerced \cup {p.name}))

\* the block the template emits for one parameter, run on its raw value:
\* inside the presence test, the coercion code and then the validation code
paramBlock(d, p, raw, st) ==
    LET c == Coerce(p.name, p.att, IsPrimitivePointer(d, p.name), raw,
                    st.fields[p.name], st.err)
        coerced == validationChecker(d, p,
                       Running([st.fields EXCEPT ![p.name] = c.val], c.err,
                               st.coerced \cup {p.name}))
    IN  IF MustValidate(d, p.name)
        THEN IF raw = <<>>
             THEN Running(st.fields, MissingParamError(p.name, st.err), st.coerced)
             ELSE coerced
        ELSE IF raw # <<>> THEN coerced ELSE st

\* the request: the raw value c.Get yields for each parameter, the headers
\* that are set, and whether the body makes a valid payload
Request(raws, headers, payloadOK, values) ==
    [raws |-> raws, headers |-> headers, payloadOK |-> payloadOK, values |-> values]

\* the body of New<Context> for the action d
newContext(d, r) ==
    LET Hdr[i \in 0..Len(d.Headers)] ==
            IF i = 0 THEN <<>>
            ELSE IF d.Headers[i].required /\ d.Headers[i].name \notin r.headers
                 THEN MissingHeaderError(d.Headers[i].name, Hdr[i - 1])
                 ELSE Hdr[i - 1]
        Par[i \in 0..Len(d.Params)] ==
            IF i = 0
            THEN Running([n \in {d.Params[j].name : j \in DOMAIN d.Params} |->
                             LET q == CHOOSE q \in {d.Params[j] : j \in DOMAIN d.Params} :
                                          q.name = n
                             IN  Zero(q.att, IsPrimitivePointer(d, n))],
                         Hdr[Len(d.Headers)], {})
            ELSE paramBlock(d, d.Params[i], r.raws[d.Params[i].name], Par[i - 1])
        st == Par[Len(d.Params)]
    IN  IF d.Payload
        THEN IF r.payloadOK
             THEN [ctx |-> <<[fields |-> st.fields, payload |-> TRUE]>>,
                   err |-> <<>>, coerced |-> st.coerced]
             ELSE [ctx |-> <<>>, err |-> PayloadError, coerced |-> st.coerced]
        ELSE [ctx |-> <<[fields |-> st.fields, payload |-> FALSE]>>,
              err |-> st.err, coerced |-> st.coerced]

NoData ==
    [Params |-> <<>>, Routes |-> <<>>, Headers |-> <<>>, Payload |-> FALSE,
     Type |-> "object", Minimum |-> EmptyMap]

NoRequest == [made |-> FALSE]

\* New<Context>(c): a call on the request r
NewContext(r) ==
    LET n == newContext(data, r)
    IN  /\ call' = [made |-> TRUE, request |-> r, ctx |-> n.ctx, err |-> n.err,
                    coerced |-> n.coerced]
        /\ UNCHANGED <<dbVars, data, helper, TempCount, written, genVars>>

(***************************************************************************)
(* The generator                                                           *)
(***************************************************************************)
\* a name is the sequence of its words; a path is the sequence of its segments
NameParts == {"User", "user", "Model"}

TypeNames == UNION {[1..l -> NameParts] : l \in 1..MaxName}

\* strings.ToLower
ToLower(s) ==
    [i \in DOMAIN s |-> CASE s[i] = "User" -> "user"
                          [] s[i] = "Model" -> "model"
                          [] OTHER -> s[i]]

\* DeModel: strings.Replace(s, "Model", "", -1)
DeModel(s) == SelectSeq(s, LAMBDA w : w # "Model")

\* ModelOutputDir()
ModelOutputDir == <<<<"models">>>>

\* codegen.VersionPackage: the directory of the package of a version
VersionPackage(version) == <<"v", version>>

DefaultVersion == ""

\* an API: its user types and its versions in the order Iterate* visits them
API(types, versions) == [nil |-> FALSE, Types |-> types, Versions |-> versions]

NoAPI == [nil |-> TRUE, Types |-> <<>>, Versions |-> <<>>]

\* what a path of the disk holds: a directory, or the code rendered from a
\* definition, whole or cut short by a failure
Directory == [from |-> <<"dir">>, whole |-> TRUE]

File(from, whole) == [from |-> from, whole |-> whole]

Write(d, path, content) ==
    [f \in (DOMAIN d) \cup {path} |-> IF f = path THEN content ELSE d[f]]

Remove(d, path) == [f \in (DOMAIN d) \ {path} |-> d[f]]

ErrIO == "input/output error"
ErrExecute == "template execution failed"
ErrNoDesign == "missing API definition"

\* the state of a running pass
Pass(gf, d, err) == [genfiles |-> gf, disk |-> d, err |-> err]

\* the steps of a pass that can fail, and the pass without a failure
NoFail == [step |-> 0 - 1, at |-> "none"]

FailPoints(a) ==
    {NoFail} \cup
    [step : 0..(Len(a.Types) + Len(a.Versions)), at : {"MkdirAll", "Execute"}]

\* the callback of IterateUserTypes on the type t
userTypeStep(verdir, t, st, fail) ==
    IF st.err # Nil \/ ~t.IsObject THEN st
    ELSE LET name == ToLower(DeModel(t.TypeName))
             dir == verdir \o <<name>>
             utFile == dir \o <<name \o <<"_gen.go">>>>
             removed == Remove(Write(st.disk, dir, Directory), utFile)
         IN  IF fail = "MkdirAll" THEN Pass(st.genfiles, st.disk, ErrIO)
             ELSE IF fail = "Execute"
             THEN Pass(st.genfiles, Write(removed, utFile, File(t.TypeName, FALSE)),
                       ErrExecute)
             ELSE Pass(Append(st.genfiles, utFile),
                       Write(removed, utFile, File(t.TypeName, TRUE)), Nil)

\* generateUserTypes: the types of the default version, in turn
generateUserTypes(verdir, a, st, fail) ==
    LET types(from) ==
            LET UT[i \in 0..Len(a.Types)] ==
                    IF i = 0 THEN from
                    ELSE userTypeStep(verdir, a.Types[i], UT[i - 1],
                                      IF fail.step = i THEN fail.at ELSE "none")
            IN  UT[Len(a.Types)]
        IT[j \in 0..Len(a.Versions)] ==
            IF j = 0 THEN st
            ELSE IF a.Versions[j] # DefaultVersion THEN IT[j - 1]
            ELSE types(IT[j - 1])
    IN  IT[Len(a.Versions)]

\* the callback of IterateVersions in Generate, generateMediaTypes included
versionStep(outdir, version, st, fail) ==
    IF st.err # Nil THEN st
    ELSE LET verdir == IF version # DefaultVersion
                       THEN outdir \o <<VersionPackage(version)>> ELSE outdir
             mtFile == verdir \o <<<<"media_types.go">>>>
             made == Write(st.disk, verdir, Directory)
         IN  IF fail = "MkdirAll" THEN Pass(st.genfiles, st.disk, ErrIO)
             ELSE IF fail = "Execute"
             THEN Pass(Append(st.genfiles, mtFile),
                       Write(made, mtFile, File(<<"media types", version>>, FALSE)),
                       ErrExecute)
             ELSE Pass(Append(st.genfiles, mtFile),
                       Write(made, mtFile, File(<<"media types", version>>, TRUE)),
                       Nil)

\* what Generate hands back
Output(files, err) == [made |-> TRUE, files |-> files, err |-> err]

NoOutput == [made |-> FALSE, files |-> <<>>, err |-> Nil]

\* the body of Cleanup
cleanup(gf) == IF Len(gf) = 0 THEN gf ELSE <<>>

\* NewGenerator()
NewGenerator ==
    /\ ~out.made
    /\ genfiles = <<>>
    /\ genfiles' = <<ModelOutputDir>>
    /\ disk' = Write(disk, ModelOutputDir, Directory)
    /\ UNCHANGED <<dbVars, ctxVars, api, out, resource, contexts, pass>>

\* g.Generate(api), with the failure fail on its way
Generate(fail) ==
    LET outdir == ModelOutputDir
        st1 == IF fail.step = 0 THEN Pass(genfiles, disk, ErrIO)
               ELSE Pass(genfiles, Write(disk, outdir, Directory), Nil)
        st2 == generateUserTypes(outdir, api, st1, fail)
        MT[j \in 0..Len(api.Versions)] ==
            IF j = 0 THEN st2
            ELSE versionStep(outdir, api.Versions[j], MT[j - 1],
                             IF fail.step = Len(api.Types) + j THEN fail.at
                             ELSE "none")
        st3 == MT[Len(api.Versions)]
        end == IF st1.err # Nil THEN st1 ELSE IF st2.err # Nil THEN st2 ELSE st3
    IN  /\ ~out.made
        /\ genfiles # <<>>
        /\ IF api.nil
           THEN /\ out' = Output(<<>>, ErrNoDesign)
                /\ UNCHANGED <<genfiles, disk>>
           ELSE /\ out' = IF st1.err # Nil THEN Output(st1.genfiles, st1.err)
                          ELSE IF st2.err # Nil THEN Output(st2.genfiles, st2.err)
                          ELSE IF st3.err # Nil THEN Output(<<>>, st3.err)
                          ELSE Output(st3.genfiles, Nil)
                /\ genfiles' = IF end.err # Nil THEN cleanup(end.genfiles)
                               ELSE end.genfiles
                /\ disk' = end.disk
        /\ UNCHANGED <<dbVars, ctxVars, api, resource, contexts, pass>>

\* g.Cleanup()
Cleanup ==
    /\ out.made
    /\ genfiles' = cleanup(genfiles)
    /\ UNCHANGED <<dbVars, ctxVars, api, disk, out, resource, contexts, pass>>

(***************************************************************************)
(* generateContexts                                                        *)
(***************************************************************************)
ResponseNames == {"OK", "NotFound"}

\* a map[string]*design.ResponseDefinition: nil, or the definition each name
\* has; a definition is told by the place that declared it
NilMap == [nil |-> TRUE, m |-> EmptyMap]

Map(m) == [nil |-> FALSE, m |-> m]

\* MergeResponses(l, r): what it returns, and l after the call
MergeResponses(l, r) ==
    IF l.nil THEN [ret |-> r, l |-> l]
    ELSE IF r.nil THEN [ret |-> l, l |-> l]
    ELSE LET merged == Map([n \in (DOMAIN l.m) \cup (DOMAIN r.m) |->
                               IF n \in DOMAIN r.m THEN r.m[n] ELSE l.m[n]])
         IN  [ret |-> merged, l |-> merged]

\* a resource: its responses and its actions in the order IterateActions
\* visits them
Action(name, responses) == [Name |-> name, Responses |-> responses]

Resource(responses, actions) == [Responses |-> responses, Actions |-> actions]

NoResource == Resource(NilMap, <<>>)

\* the part of ContextTemplateData the response helpers are rendered from
ContextTemplateData(action, responses) ==
    [ActionName |-> action, Responses |-> responses]

contextsFile(version) == <<"models", VersionPackage(version), "contexts.go">>

\* g.generateContexts(verdir, api, version): the ContextTemplateData of each
\* action of the resource, and the resource after the iteration
iterateActions(r) ==
    LET Step[i \in 0..Len(r.Actions)] ==
            IF i = 0 THEN [Responses |-> r.Responses, datas |-> <<>>]
            ELSE LET a == r.Actions[i]
                     mr == MergeResponses(Step[i - 1].Responses, a.Responses)
                 IN  [Responses |-> mr.l,
                      datas |-> Append(Step[i - 1].datas,
                                       ContextTemplateData(a.Name, mr.ret))]
    IN  Step[Len(r.Actions)]

generateContexts(version) ==
    LET end == iterateActions(resource)
        ctxFile == contextsFile(version)
    IN  /\ genfiles # <<>>
        /\ Len(contexts) + Len(end.datas) <= MaxContexts
        /\ resource' = Resource(end.Responses, resource.Actions)
        /\ contexts' = contexts \o end.datas
        /\ genfiles' = Append(genfiles, ctxFile)
        /\ disk' = Write(disk, ctxFile, File(<<"contexts", version>>, TRUE))
        /\ UNCHANGED <<dbVars, ctxVars, api, out, pass>>

(***************************************************************************)
(* Generate and the goroutine it starts                                    *)
(***************************************************************************)
\* a pass of Generate, statement by statement: where it is, the unit it
\* comes to next, the list append(g.genfiles, file) has built and not yet
\* assigned, the goroutine of utils.Catch, and whether that goroutine ran
\* Cleanup between the read and the write of an append
Running2(pc, unit, reg, catch, raced) ==
    [pc |-> pc, unit |-> unit, reg |-> reg, catch |-> catch, raced |-> raced]

NoPass == Running2("idle", 0, <<>>, "none", FALSE)

\* the units of a pass: the user types, then the versions
Units(a) == Len(a.Types) + Len(a.Versions)

\* the callback that handles unit k, run on the state st
unitStep(a, k, st) ==
    IF k <= Len(a.Types)
    THEN userTypeStep(ModelOutputDir, a.Types[k], st, "none")
    ELSE versionStep(ModelOutputDir, a.Versions[k - Len(a.Types)], st, "none")

\* g.Generate(api) up to its first unit: `go utils.Catch(nil, ...)` and
\* os.MkdirAll(outdir)
BeginGenerate ==
    /\ pass.pc = "idle"
    /\ ~out.made
    /\ genfiles # <<>>
    /\ ~api.nil
    /\ pass' = Running2("running", 1, <<>>, "waiting", FALSE)
    /\ disk' = Write(disk, ModelOutputDir, Directory)
    /\ UNCHANGED <<dbVars, ctxVars, api, genfiles, out, resource, contexts>>

\* the next unit up to the evaluation of append(g.genfiles, file)
RunUnit ==
    LET st == unitStep(api, pass.unit, Pass(genfiles, disk, Nil))
    IN  /\ pass.pc = "running"
        /\ pass.reg = <<>>
        /\ pass.unit <= Units(api)
        /\ disk' = st.disk
        /\ pass' = IF st.genfiles # genfiles
                   THEN [pass EXCEPT !.reg = <<st.genfiles>>]
                   ELSE [pass EXCEPT !.unit = pass.unit + 1]
        /\ UNCHANGED <<dbVars, ctxVars, api, genfiles, out, resource, contexts>>

\* the assignment g.genfiles = append(...)
AssignGenfiles ==
    /\ pass.pc = "running"
    /\ pass.reg # <<>>
    /\ genfiles' = pass.reg[1]
    /\ pass' = [pass EXCEPT !.reg = <<>>, !.unit = pass.unit + 1]
    /\ UNCHANGED <<dbVars, ctxVars, api, disk, out, resource, contexts>>

\* a signal arrives: the goroutine of utils.Catch calls g.Cleanup()
Interrupt ==
    /\ pass.pc = "running"
    /\ pass.catch = "waiting"
    /\ genfiles' = cleanup(genfiles)
    /\ pass' = [pass EXCEPT !.catch = "done", !.raced = (pass.reg # <<>>)]
    /\ UNCHANGED <<dbVars, ctxVars, api, disk, out, resource, contexts>>

\* return g.genfiles, nil
ReturnGenerate ==
    /\ pass.pc = "running"
    /\ pass.reg = <<>>
    /\ pass.unit > Units(api)
    /\ out' = Output(genfiles, Nil)
    /\ pass' = [pass EXCEPT !.pc = "returned"]
    /\ UNCHANGED <<dbVars, ctxVars, api, genfiles, disk, resource, contexts>>

(***************************************************************************)
(* ctxRespT                                                                *)
(***************************************************************************)
\* the media types of the API by identifier, and an identifier none has
MediaTypes == {"application/vnd.widget", "application/vnd.account"}

Identifiers == MediaTypes \cup {"text/plain"}

\* $ctx.API.MediaTypeWithIdentifier: the media type, or nil
MediaTypeWithIdentifier(id) == IF id \in MediaTypes THEN <<id>> ELSE <<>>

\* $mt.ComputeViews: the views of a media type
ComputeViews(id) ==
    IF id = "application/vnd.widget" THEN {"default", "tiny"} ELSE {"default"}

\* the view a caller hands to the helper: the helper of a media type with
\* one view takes none
ViewArguments(id) ==
    IF MediaTypeWithIdentifier(id) # <<>> /\ Cardinality(ComputeViews(id)) > 1
    THEN ComputeViews(id) ELSE {""}

\* a design.ResponseDefinition; MediaType "" when it has none
Response(name, status, mediaType) ==
    [Name |-> name, Status |-> status, MediaType |-> mediaType]

ErrDump == "dump failed"
ErrWrite == "write failed"
ErrInvalidResponse == "invalid response: dump failed"

\* the value of the Content-Type header the helper sets
ContentType(identifier) == <<identifier, "charset=utf-8">>

\* a call of a helper: where it is, what Dump returned, the header and the
\* body of the response so far, and what the helper returned
Helper(pc, resp, view, dump, header, body, err) ==
    [pc |-> pc, resp |-> resp, view |-> view, dump |-> dump, header |-> header,
     body |-> body, ret |-> err]

NoHelper == Helper("idle", Response("", 0, ""), "", Nil, <<>>, <<>>, Nil)

\* the helper of a response is called with a fresh request context
CallHelper(resp, view) ==
    /\ helper.pc \in {"idle", "returned"}
    /\ helper' = Helper(IF MediaTypeWithIdentifier(resp.MediaType) # <<>>
                        THEN "Dump" ELSE "Respond",
                        resp, view, Nil, <<>>, <<>>, Nil)
    /\ UNCHANGED <<dbVars, data, call, TempCount, written, genVars>>

\* r, err := resp.Dump([view]): every failure goes on to the header
DumpIgnoresError(e) ==
    /\ helper.pc = "Dump"
    /\ helper' = [helper EXCEPT !.pc = "Header", !.dump = e]
    /\ UNCHANGED <<dbVars, data, call, TempCount, written, genVars>>

\* r, err := resp.Dump([view]); if err != nil { return fmt.Errorf(...) }
Dump(e) ==
    /\ helper.pc = "Dump"
    /\ helper' = IF e # Nil
                 THEN [helper EXCEPT !.pc = "returned", !.dump = e,
                                     !.ret = ErrInvalidResponse]
                 ELSE [helper EXCEPT !.pc = "Header", !.dump = e]
    /\ UNCHANGED <<dbVars, data, call, TempCount, written, genVars>>

\* ctx.Header().Set("Content-Type", "<identifier>; charset=utf-8")
SetHeader ==
    /\ helper.pc = "Header"
    /\ helper' = [helper EXCEPT !.pc = "JSON",
                                !.header = <<ContentType(
                                    MediaTypeWithIdentifier(helper.resp.MediaType)[1])>>]
    /\ UNCHANGED <<dbVars, data, call, TempCount, written, genVars>>

\* return ctx.JSON(status, r)
JSON(e) ==
    /\ helper.pc = "JSON"
    /\ helper' = [helper EXCEPT !.pc = "returned",
                                !.body = <<[Status |-> helper.resp.Status,
                                            value |-> <<"r", helper.view>>]>>,
                                !.ret = e]
    /\ UNCHANGED <<dbVars, data, call, TempCount, written, genVars>>

\* return ctx.Respond(status, resp) or ctx.Respond(status, nil)
Respond(e) ==
    /\ helper.pc = "Respond"
    /\ helper' = [helper EXCEPT !.pc = "returned",
                                !.body = <<[Status |-> helper.resp.Status,
                                            value |-> IF helper.resp.MediaType # ""
                                                      THEN <<"resp">> ELSE <<>>]>>,
                                !.ret = e]
    /\ UNCHANGED <<dbVars, data, call, TempCount, written, genVars>>

(***************************************************************************)
(* ContextsWriter.Execute                                                  *)
(***************************************************************************)
\* codegen.Tempvar, called when TempCount is tc: the name it returns
tempvar(tc) == <<"tmp">> \o Itoa(tc + 1)

\* the text of a coercion fragment: the identifiers it declares, whether it
\* assigns its target, and the fragment rendered inside its loop
Fragment(declares, assigns, body) ==
    [declares |-> declares, assigns |-> assigns, body |-> body]

RECURSIVE renderCoerce(_, _, _, _)
\* template "Coerce" rendered for newCoerceData(name, att, pointer, pkg,
\* depth) when TempCount is tc: its text, and TempCount afterwards.  The
\* arguments of `or` are all evaluated, so tempvar is called for a value
\* field too.
renderCoerce(name, att, pointer, tc) ==
    CASE att.kind \in {"boolean", "number"} ->
             [text |-> Fragment({<<name>>, <<"err2">>}
                                    \cup (IF pointer THEN {tempvar(tc)} ELSE {}),
                                TRUE, <<>>),
              TempCount |-> tc + 1]
      [] att.kind = "integer" ->
             [text |-> Fragment({<<name>>, <<"err2">>}
                                    \cup (IF pointer
                                          THEN {tempvar(tc), tempvar(tc + 1)}
                                          ELSE {}),
                                TRUE, <<>>),
              TempCount |-> IF pointer THEN tc + 2 ELSE tc + 1]
      [] att.kind \in {"string", "any"} ->
             [text |-> Fragment({}, TRUE, <<>>), TempCount |-> tc]
      [] att.kind = "array" ->
             IF arrayAttribute(att).kind = "string"
             THEN [text |-> Fragment({<<"elems", name>>}, TRUE, <<>>),
                   TempCount |-> tc]
             ELSE LET elem == renderCoerce("elem", arrayAttribute(att), FALSE, tc)
                  IN  [text |-> Fragment({<<"elems", name>>, <<"elems", name, "2">>,
                                          <<"i">>, <<"rawElem">>},
                                         TRUE, <<elem.text>>),
                       TempCount |-> elem.TempCount]
      [] OTHER -> [text |-> Fragment({}, FALSE, <<>>), TempCount |-> tc]

\* CtxNewTmpl rendered for d: the fragment of each parameter in turn
renderParams(d, tc) ==
    LET Par[i \in 0..Len(d.Params)] ==
            IF i = 0 THEN [text |-> <<>>, TempCount |-> tc]
            ELSE LET p == d.Params[i]
                     r == renderCoerce(p.name, p.att, IsPrimitivePointer(d, p.name),
                                       Par[i - 1].TempCount)
                 IN  [text |-> Append(Par[i - 1].text, r.text),
                      TempCount |-> r.TempCount]
    IN  Par[Len(d.Params)]

\* w.Execute(&d): e is the error of the templates' execution, nil when all of
\* them ran to their end
Execute(d, e) ==
    LET r == renderParams(d, TempCount)
    IN  /\ Len(written) < MaxRenders
        /\ r.TempCount <= MaxTemps
        /\ written' = Append(written, [data |-> d, text |-> r.text, err |-> e])
        /\ TempCount' = r.TempCount
        /\ UNCHANGED <<dbVars, data, call, helper, genVars>>

(***************************************************************************)
(* Specifications                                                          *)
(***************************************************************************)
InitDb(options) ==
    /\ Options \in options
    /\ Db = [t \in TableNames |-> EmptyMap]
    /\ assoc = {}
    /\ cache = EmptyMap
    /\ tasks = EmptyBag
    /\ ret = NoCall
    /\ bg = [supplied |-> NoTable, accesses |-> <<>>]

InitCtx(datas) ==
    /\ data \in datas
    /\ call = NoRequest
    /\ helper = NoHelper
    /\ TempCount = 0
    /\ written = <<>>

InitGenOf(apis, resources) ==
    /\ api \in apis
    /\ genfiles = <<>>
    /\ disk = EmptyMap
    /\ out = NoOutput
    /\ resource \in resources
    /\ contexts = <<>>
    /\ pass = NoPass

InitGen(apis) == InitGenOf(apis, {NoResource})

InitWith(options) == InitDb(options) /\ InitCtx({NoData}) /\ InitGen({NoAPI})

NoOptions == [Cached |-> FALSE, DynamicTableName |-> FALSE]

Background ==
    \/ \E task \in BagToSet(tasks) : RunSet(task)
    \/ \E task \in BagToSet(tasks) : RunDelete(task)
    \/ \E task \in BagToSet(tasks) : RunRefresh(task)

\* the CRUD operations of a resource with a fixed table name
Init == InitWith([Cached : BOOLEAN, DynamicTableName : {FALSE}])

Next ==
    \/ \E id \in Keys : One(FixedTable, id)
    \/ \E v \in Vals : Add(FixedTable, [ID |-> 0, ParentID |-> 1, Val |-> v])
    \/ \E id \in Keys, v \in Vals :
          Update(FixedTable, [ID |-> id, ParentID |-> 0, Val |-> v])
    \/ \E id \in Keys : Delete(FixedTable, id)
    \/ Background

Spec == Init /\ [][Next]_vars

\* the same resource, read, inserted into and deleted from
InitFetchDelete == InitWith([Cached : BOOLEAN, DynamicTableName : {FALSE}])

NextFetchDelete ==
    \/ \E id \in Keys : One(FixedTable, id)
    \/ Add(FixedTable, [ID |-> 0, ParentID |-> 1, Val |-> 1])
    \/ \E id \in Keys : Delete(FixedTable, id)
    \/ \E task \in BagToSet(tasks) : RunSet(task)
    \/ \E task \in BagToSet(tasks) : RunDelete(task)

SpecFetchDelete == InitFetchDelete /\ [][NextFetchDelete]_vars

\* a resource that belongs to a parent: its list by parent, which makes no
\* use of the cache
InitListByParent == InitWith([Cached : {FALSE}, DynamicTableName : {FALSE}])

NextListByParent ==
    \/ \E id \in RowIDs, p \in ParentIDs :
          Add(FixedTable, [ID |-> id, ParentID |-> p, Val |-> 1])
    \/ \E id \in RowIDs, p \in ParentIDs :
          Update(FixedTable, [ID |-> id, ParentID |-> p, Val |-> 0])
    \/ \E id \in RowIDs : Delete(FixedTable, id)
    \/ \E parentid \in -1..MaxParent : ListByParent(FixedTable, parentid)

SpecListByParent == InitListByParent /\ [][NextListByParent]_vars

\* a resource that belongs to a parent: its fetch by parent
InitBelongsTo == InitWith([Cached : BOOLEAN, DynamicTableName : {FALSE}])

NextBelongsTo ==
    \/ \E id \in RowIDs, p \in ParentIDs :
          Add(FixedTable, [ID |-> id, ParentID |-> p, Val |-> 1])
    \/ \E id \in RowIDs : One(FixedTable, id)
    \/ \E parentid \in -1..MaxParent, id \in RowIDs :
          OneByParent(FixedTable, parentid, id)
    \/ \E task \in BagToSet(tasks) : RunSet(task)

SpecBelongsTo == InitBelongsTo /\ [][NextBelongsTo]_vars

\* a resource with a many-to-many relation
InitMany2Many == InitWith([Cached : BOOLEAN, DynamicTableName : {FALSE}])

NextMany2Many ==
    \/ \E o \in RowIDs, r \in RelatedIDs : AddRelation(FixedTable, o, r)
    \/ \E o \in RowIDs, r \in RelatedIDs : DeleteRelation(FixedTable, o, r)
    \/ \E o \in RowIDs : ListRelations(FixedTable, o)

SpecMany2Many == InitMany2Many /\ [][NextMany2Many]_vars

\* a resource whose table name is fixed or supplied per call
InitTableName == InitWith([Cached : BOOLEAN, DynamicTableName : BOOLEAN])

NextTableName ==
    \/ \E t \in TableNames, id \in Keys : One(t, id)
    \/ \E t \in TableNames, id \in Keys, v \in Vals :
          Add(t, [ID |-> id, ParentID |-> 1, Val |-> v])
    \/ \E t \in TableNames, id \in Keys, v \in Vals :
          Update(t, [ID |-> id, ParentID |-> 0, Val |-> v])
    \/ \E t \in TableNames, id \in Keys : Delete(t, id)
    \/ Background

SpecTableName == InitTableName /\ [][NextTableName]_vars

\* a resource keyed by two columns, read, inserted into and deleted from
InitPks == InitWith([Cached : BOOLEAN, DynamicTableName : {FALSE}])

NextPks ==
    \/ \E id \in Keys, p \in ParentIDs :
          AddPks(FixedTable, [ID |-> id, ParentID |-> p, Val |-> 1])
    \/ \E id \in Keys, p \in ParentIDs : OnePks(FixedTable, id, p)
    \/ \E id \in Keys, p \in ParentIDs : DeletePks(FixedTable, id, p)
    \/ \E task \in BagToSet(tasks) : RunSet(task)
    \/ \E task \in BagToSet(tasks) : RunDelete(task)

SpecPks == InitPks /\ [][NextPks]_vars

\* an action with one parameter of a primitive kind
CoerceData ==
    {[Params |-> <<Param("count", Attribute(k, <<>>), required)>>,
      Routes |-> routes, Headers |-> <<>>, Payload |-> FALSE,
      Type |-> "object", Minimum |-> EmptyMap] :
        k \in ScalarKinds \cup {"string"}, required \in BOOLEAN,
        routes \in {<<>>, <<{"count"}>>, <<{"count"}, {}>>}}

InitCoerce == InitDb({NoOptions}) /\ InitCtx(CoerceData) /\ InitGen({NoAPI})

NextCoerce ==
    \E raw \in Strings(MaxLen) :
        ~call.made /\
        NewContext(Request([n \in {"count"} |-> raw], {}, TRUE, <<>>))

SpecCoerce == InitCoerce /\ [][NextCoerce]_vars

\* an action with one array parameter, called with the encoding of a list of
\* values
ArrayData ==
    {[Params |-> <<Param("ids", ArrayOf(k), required)>>,
      Routes |-> <<>>, Headers |-> <<>>, Payload |-> FALSE,
      Type |-> "object", Minimum |-> EmptyMap] :
        k \in {"boolean", "integer", "string"}, required \in BOOLEAN}

\* the values of a kind
Values(kind) ==
    CASE kind = "boolean" -> BOOLEAN
      [] kind = "integer" -> {0 - 1, 0, 1, 10}
      [] kind = "string" -> Strings(1)

\* the text a client sends for a value: strconv.FormatBool, strconv.Itoa, or
\* the string itself
Encode(kind, v) ==
    CASE kind = "boolean" ->
             IF v THEN <<"t", "r", "u", "e">> ELSE <<"f", "a", "l", "s", "e">>
      [] kind = "integer" -> Itoa(v)
      [] kind = "string" -> v

InitArray == InitDb({NoOptions}) /\ InitCtx(ArrayData) /\ InitGen({NoAPI})

NextArray ==
    LET kind == arrayAttribute(data.Params[1].att).kind
    IN  \E a \in UNION {[1..l -> Values(kind)] : l \in 0..MaxElems} :
            ~call.made /\
            NewContext(Request(
                [n \in {"ids"} |-> Join([i \in DOMAIN a |-> Encode(kind, a[i])], ",")],
                {}, TRUE, a))

SpecArray == InitArray /\ [][NextArray]_vars

\* an action with a header, two parameters and possibly a payload
AccumulateData ==
    {[Params |-> <<Param("count", Attribute("integer", <<>>), r1),
                   Param("flag", Attribute("boolean", <<>>), r2)>>,
      Routes |-> <<>>, Headers |-> <<Header("Auth", h)>>, Payload |-> payload,
      Type |-> "object", Minimum |-> EmptyMap] :
        r1 \in BOOLEAN, r2 \in BOOLEAN, h \in BOOLEAN, payload \in BOOLEAN}

InitAccumulate ==
    InitDb({NoOptions}) /\ InitCtx(AccumulateData) /\ InitGen({NoAPI})

NextAccumulate ==
    \E count \in Strings(1), flag \in Strings(1), headers \in SUBSET {"Auth"},
       payloadOK \in BOOLEAN :
        ~call.made /\
        NewContext(Request([n \in {"count", "flag"} |->
                               IF n = "count" THEN count ELSE flag],
                           headers, payloadOK, <<>>))

SpecAccumulate == InitAccumulate /\ [][NextAccumulate]_vars

\* a pass of the generator over an API
\* the lists of at most n user types with different names
TypeLists(n) ==
    {ts \in UNION {[1..l -> [TypeName : TypeNames, IsObject : BOOLEAN]] :
                      l \in 0..n} :
        \A i \in DOMAIN ts, j \in DOMAIN ts :
            i # j => ts[i].TypeName # ts[j].TypeName}

APIs(n) ==
    {API(types, versions) :
        types \in TypeLists(n),
        versions \in {<<DefaultVersion>>, <<DefaultVersion, "1">>}}

InitGenerate ==
    InitDb({NoOptions}) /\ InitCtx({NoData}) /\ InitGen(APIs(MaxTypes) \cup {NoAPI})

NextGenerate ==
    \/ NewGenerator
    \/ \E fail \in FailPoints(api) : Generate(fail)
    \/ Cleanup

SpecGenerate == InitGenerate /\ [][NextGenerate]_vars

\* the resource of the API: a response map is nil or declares some of the
\* names, at the resource and at each of its actions
ActionNames == <<"show", "list", "update", "delete">>

MapShapes == {<<TRUE, {}>>} \cup {<<FALSE, S>> : S \in SUBSET ResponseNames}

MapOf(shape, who) == IF shape[1] THEN NilMap ELSE Map([n \in shape[2] |-> who])

Resources(n) ==
    {Resource(MapOf(rs, "resource"),
              [i \in 1..n |-> Action(ActionNames[i], MapOf(as[i], ActionNames[i]))]) :
        rs \in MapShapes, as \in [1..n -> MapShapes]}

InitContexts ==
    /\ InitDb({NoOptions})
    /\ InitCtx({NoData})
    /\ InitGenOf({API(<<>>, <<DefaultVersion, "1">>)}, Resources(MaxActions))

NextContexts ==
    \/ NewGenerator
    \/ \E j \in DOMAIN api.Versions : generateContexts(api.Versions[j])

SpecContexts == InitContexts /\ [][NextContexts]_vars

\* the response helpers of a context: one per response of the action
Responses ==
    {Response(n, s, mt) : n \in ResponseNames, s \in {200, 404, 500},
                          mt \in Identifiers \cup {""}}

NextHelper ==
    \/ \E resp \in Responses :
          \E view \in ViewArguments(resp.MediaType) : CallHelper(resp, view)
    \/ \E e \in {Nil, ErrDump} : Dump(e)
    \/ SetHeader
    \/ \E e \in {Nil, ErrWrite} : JSON(e)
    \/ \E e \in {Nil, ErrWrite} : Respond(e)

SpecHelper == InitWith({NoOptions}) /\ [][NextHelper]_vars

\* the same action, called with a list of elements of any text
NextElements ==
    \E a \in UNION {[1..l -> Strings(1)] : l \in 1..MaxElems} :
        ~call.made /\ NewContext(Request([n \in {"ids"} |-> Join(a, ",")], {}, TRUE, a))

SpecElements == InitArray /\ [][NextElements]_vars

\* an action with one integer parameter that may declare a minimum
ValidateData ==
    {[Params |-> <<Param("count", Attribute("integer", <<>>), required)>>,
      Routes |-> <<>>, Headers |-> <<>>, Payload |-> FALSE,
      Type |-> "object", Minimum |-> min] :
        required \in BOOLEAN,
        min \in {EmptyMap} \cup {[n \in {"count"} |-> m] : m \in 0..MaxVal}}

InitValidate == InitDb({NoOptions}) /\ InitCtx(ValidateData) /\ InitGen({NoAPI})

SpecValidate == InitValidate /\ [][NextCoerce]_vars

\* actions with one parameter of each shape, rendered one after another by
\* one process
RenderShapes ==
    {Attribute(k, <<>>) : k \in {"integer", "boolean", "string", "object"}}
        \cup {ArrayOf("integer"), ArrayOf("object"),
              Attribute("array", <<ArrayOf("integer")>>)}

RenderData ==
    {[Params |-> <<Param("ids", att, required)>>,
      Routes |-> <<>>, Headers |-> <<>>, Payload |-> FALSE,
      Type |-> "object", Minimum |-> EmptyMap] :
        att \in RenderShapes, required \in BOOLEAN}

NextRender == \E d \in RenderData, e \in {Nil, ErrExecute} : Execute(d, e)

SpecRender == InitWith({NoOptions}) /\ [][NextRender]_vars

\* actions whose routes each name some of the parameters, and whose params
\* attribute is an object or is not
ParamNames == {"id", "name", "page"}

RouteLists(n) == UNION {[1..l -> SUBSET {"id", "name"}] : l \in 0..n}

PathParamData(n) ==
    {[Params |-> <<>>, Routes |-> routes, Headers |-> <<>>, Payload |-> FALSE,
      Type |-> type, Minimum |-> EmptyMap] :
        routes \in RouteLists(n), type \in {"object", "string"}}

InitPathParam ==
    InitDb({NoOptions}) /\ InitCtx(PathParamData(MaxRoutes)) /\ InitGen({NoAPI})

NextPathParam == \E param \in ParamNames : CallIsPathParam(param)

SpecPathParam == InitPathParam /\ [][NextPathParam]_vars

\* a pass that succeeds, and the signal that may arrive while it runs
InitInterrupt == InitDb({NoOptions}) /\ InitCtx({NoData}) /\ InitGen(APIs(MaxTypes))

NextInterrupt ==
    \/ pass.pc = "idle" /\ NewGenerator
    \/ BeginGenerate
    \/ RunUnit
    \/ AssignGenfiles
    \/ Interrupt
    \/ ReturnGenerate

SpecInterrupt == InitInterrupt /\ [][NextInterrupt]_vars

(***************************************************************************)
(* Claims                                                                  *)
(***************************************************************************)
Failed(r) == {i \in DOMAIN r.accesses : r.accesses[i].err # Nil}

\* C1: with caching enabled, One on a key the cache holds returns the cached
\* value with a nil error and makes no storage call; One makes a storage call
\* (one Find) only on a cache miss or when caching is disabled.
C1_CacheHitShortCircuits ==
    [][\A id \in Keys :
          One(FixedTable, id) =>
              /\ (Options.Cached /\ Itoa(id) \in DOMAIN cache) =>
                    /\ ret'.obj = cache[Itoa(id)]
                    /\ ret'.err = Nil
                    /\ ret'.accesses = <<>>
              /\ (ret'.accesses # <<>>) =>
                    /\ ~Options.Cached \/ Itoa(id) \notin DOMAIN cache
                    /\ Len(ret'.accesses) = 1
                    /\ ret'.accesses[1].kind = "Find"]_vars

C1_Witness ==
    /\ Options.Cached
    /\ ret.op = "One"
    /\ ret.found
    /\ ret.accesses = <<>>
    /\ ret.obj.ID = ret.id

\* C2: with caching enabled, once Update has returned success and every
\* goroutine it started has run, the cache entry of the model's key is the row
\* as it is in storage, whatever the cache held before.
C2_UpdateRefreshesCache ==
    (/\ Options.Cached
     /\ ret.op = "Update"
     /\ ret.err = Nil
     /\ tasks = EmptyBag
     /\ ret.id \in DOMAIN Db[FixedTable])
        => /\ Itoa(ret.id) \in DOMAIN cache
           /\ cache[Itoa(ret.id)] = Db[FixedTable][ret.id]

\* C3: once every call has returned and every goroutine has run, each cache
\* entry is the row stored under its key, and no entry exists for a key
\* without a row.
C3_EventuallyConsistent ==
    (Options.Cached /\ tasks = EmptyBag)
        => \A k \in DOMAIN cache :
              \E id \in DOMAIN Db[FixedTable] :
                  k = Itoa(id) /\ cache[k] = Db[FixedTable][id]

\* C4: One, Add and Update start a cache Set only with the result of a fetch,
\* insert or update that succeeded: when the storage call fails, no Set of the
\* zero-value object or of the unsaved model is started.
C4_FailureAbortsCacheSet ==
    ret.op \in {"One", "Add", "Update"}
        => \A task \in ret.spawned :
              task.kind = "Set" => (ret.accesses # <<>> /\ ret.accesses[1].err = Nil)

C6_ErrorsReturnedUnmodified ==
    /\ \A i \in Failed(ret) : ret.err = ret.accesses[i].err
    /\ \A i, j \in DOMAIN ret.accesses :
          ret.accesses[i].kind = ret.accesses[j].kind => i = j

\* C7: ListBy<Parent>(parentid), when its query succeeds, returns exactly the
\* rows whose foreign key is parentid when parentid > 0, and all the rows
\* when parentid <= 0.
C7_ListByParentFilters ==
    (ret.op = "ListByParent" /\ Failed(ret) = {})
        => ret.objs = IF ret.parentid > 0
                      THEN {o \in AllRows(FixedTable) : o.ParentID = ret.parentid}
                      ELSE AllRows(FixedTable)

C7_Witness ==
    /\ ret.op = "ListByParent"
    /\ Failed(ret) = {}
    /\ ret.parentid > 0
    /\ ret.objs # {}
    /\ ret.objs # AllRows(FixedTable)

\* C8: OneBy<Parent>(parentid, id) with parentid > 0 never returns, with a nil
\* error, a row whose foreign key differs from parentid, with caching enabled
\* or disabled.
C8_OneByParentFilters ==
    (ret.op = "OneByParent" /\ ret.parentid > 0 /\ ret.err = Nil /\ ret.obj.ID # 0)
        => ret.obj.ParentID = ret.parentid

\* C9: a successful Add<Relation>(owner, related) makes List<Relations>(owner)
\* include related, a successful Delete<Relation>(owner, related) makes it
\* exclude related, neither changes the list of another owner or the presence
\* of another related id, and List<Relations> returns those ids.
C9_AssociationRoundTrip ==
    [][/\ \A o \in RowIDs, r \in RelatedIDs :
             (AddRelation(FixedTable, o, r) /\ ret'.err = Nil) =>
                 /\ r \in Associated(o)'
                 /\ Associated(o)' \ {r} = Associated(o) \ {r}
                 /\ \A o2 \in RowIDs \ {o} : Associated(o2)' = Associated(o2)
       /\ \A o \in RowIDs, r \in RelatedIDs :
             (DeleteRelation(FixedTable, o, r) /\ ret'.err = Nil) =>
                 /\ r \notin Associated(o)'
                 /\ Associated(o)' \ {r} = Associated(o) \ {r}
                 /\ \A o2 \in RowIDs \ {o} : Associated(o2)' = Associated(o2)
       /\ \A o \in RowIDs :
             (ListRelations(FixedTable, o) /\ Failed(ret') = {}) =>
                 /\ ret'.objs = Associated(o)
                 /\ assoc' = assoc]_vars

C9_Witness ==
    /\ ret.op = "ListRelations"
    /\ Failed(ret) = {}
    /\ ret.objs # {}
    /\ ret.objs = Associated(ret.id)
    /\ \E o2 \in RowIDs \ {ret.id} : Associated(o2) \notin {{}, ret.objs}

\* C10: when dynamicTableName is set, every storage call an operation causes,
\* those of Update's pre-fetch and of its background refresh included, is
\* scoped to the table name its caller supplied; when it is not set, every
\* storage call is scoped to the fixed table.
C10_TableNameScopesEveryAccess ==
    /\ \A i \in DOMAIN ret.accesses :
          ret.accesses[i].table =
              IF Options.DynamicTableName THEN ret.table ELSE FixedTable
    /\ \A i \in DOMAIN bg.accesses :
          bg.accesses[i].table =
              IF Options.DynamicTableName THEN bg.supplied ELSE FixedTable

\* C11: One and Delete address exactly the row of the requested key: with a
\* key of several columns, a One that reads storage and succeeds returns the
\* row whose whole key tuple is the requested one, and a Delete that succeeds
\* removes that row and no other.
C11_WholeKeyTupleSelectsTheRow ==
    [][\A id \in Keys, p \in ParentIDs :
          /\ (OnePks(FixedTable, id, p) /\ ret'.err = Nil /\ ~ret'.found) =>
                pkTuple(PrimaryKeys, ret'.obj) = <<id, p>>
          /\ (DeletePks(FixedTable, id, p) /\ ret'.err = Nil) =>
                \A k \in DOMAIN Db[FixedTable] \ {<<id, p>>} :
                    k \in DOMAIN Db'[FixedTable]]_vars

\* C12: a cache entry belongs to one key tuple: a row that One returns from
\* the cache has the requested key tuple, also with a key of several columns.
C12_CacheEntryPerKeyTuple ==
    (ret.op = "One" /\ ret.found /\ ret.obj # ZeroObj) =>
        pkTuple(PrimaryKeys, ret.obj) = <<ret.id, ret.parentid>>

\* the parameter of an action that has one, its raw value in the last call and
\* the field of the context the call returned
TheParam == data.Params[1]
TheRaw == call.request.raws[TheParam.name]
TheField == call.ctx[1].fields[TheParam.name]

\* C13: a boolean, integer or number parameter whose raw value is present: if
\* the raw text is well-formed the field holds the decoded value and there is
\* no error; if it is malformed there is exactly one invalid-parameter-type
\* error, with the name, the raw text and the expected kind, and the field
\* keeps its zero value.
C13_ScalarCoercion ==
    (call.made /\ TheParam.att.kind \in ScalarKinds /\ TheRaw # <<>>) =>
        LET parsed == Parse(TheParam.att.kind, TheRaw)
        IN  IF parsed.err = Nil
            THEN /\ TheField = IF TheParam.required THEN parsed.val
                               ELSE <<parsed.val>>
                 /\ call.err = <<>>
            ELSE /\ call.err = <<ParamError("InvalidParamType", TheParam.name,
                                            TheRaw, TheParam.att.kind)>>
                 /\ TheField = Zero(TheParam.att, ~TheParam.required)

C13_Witness ==
    /\ call.made
    /\ TheParam.att.kind = "integer"
    /\ TheRaw = <<"1", "x">>
    /\ Len(call.err) = 1
    /\ call.err[1].val = TheRaw

OnEveryRoute ==
    /\ data.Routes # <<>>
    /\ \A i \in DOMAIN data.Routes : TheParam.name \in data.Routes[i]

\* C15: a required parameter that is a path parameter never yields a
\* missing-parameter error, even with an empty raw value; a required parameter
\* that is not a path parameter yields a missing-parameter error when its raw
\* value is empty, and is coerced exactly when the raw value is present.
C15_PathParamsAreNotCheckedForPresence ==
    (call.made /\ TheParam.required) =>
        /\ (TheParam.name \in call.coerced) <=> (TheRaw # <<>>)
        /\ OnEveryRoute =>
              \A i \in DOMAIN call.err : call.err[i].error # "MissingParam"
        /\ (~OnEveryRoute /\ TheRaw = <<>>) =>
              call.err = <<ParamError("MissingParam", TheParam.name, <<>>, "")>>

C15_Witness ==
    /\ call.made
    /\ TheParam.required
    /\ OnEveryRoute
    /\ TheRaw = <<>>
    /\ call.err = <<>>

\* an error of the chain err is the error e
Reported(e) == \E i \in DOMAIN call.err : call.err[i] = e

\* C16: the error the constructor returns holds every failure of the request:
\* a missing-header error for each required header that is not set, a
\* missing-parameter error for each required parameter without a raw value, an
\* invalid-type error for each parameter with a malformed raw value; every
\* parameter with a raw value is coerced, whatever happened to the others.
C16_EveryFailureIsReturned ==
    call.made =>
        /\ \A i \in DOMAIN data.Headers :
              (data.Headers[i].required
                  /\ data.Headers[i].name \notin call.request.headers) =>
                  Reported(ParamError("MissingHeader", data.Headers[i].name, <<>>, ""))
        /\ \A i \in DOMAIN data.Params :
              LET p == data.Params[i]
                  raw == call.request.raws[p.name]
              IN  /\ (p.required /\ raw = <<>>) =>
                        Reported(ParamError("MissingParam", p.name, <<>>, ""))
                  /\ (raw # <<>>) => p.name \in call.coerced
                  /\ (raw # <<>> /\ Parse(p.att.kind, raw).err # Nil) =>
                        Reported(ParamError("InvalidParamType", p.name, raw,
                                            p.att.kind))

\* C17: every call of the constructor returns a context, not nil, whatever
\* error it returns with it.
C17_ContextIsNeverNil == call.made => call.ctx # <<>>

\* C18: an optional parameter is coerced exactly when its raw value is not
\* empty: with an empty raw value its field is nil and no error is added; with
\* a raw value that parses, its field points to the coerced value.
C18_OptionalParamsAreCoercedWhenPresent ==
    (call.made /\ ~TheParam.required) =>
        /\ (TheParam.name \in call.coerced) <=> (TheRaw # <<>>)
        /\ (TheRaw = <<>>) => (TheField = <<>> /\ call.err = <<>>)
        /\ (TheRaw # <<>> /\ TheParam.att.kind = "string") => TheField = <<TheRaw>>
        /\ (TheRaw # <<>> /\ TheParam.att.kind \in ScalarKinds
               /\ Parse(TheParam.att.kind, TheRaw).err = Nil) =>
              TheField = <<Parse(TheParam.att.kind, TheRaw).val>>

C18_Witness ==
    /\ call.made
    /\ ~TheParam.required
    /\ TheParam.att.kind = "integer"
    /\ TheRaw = <<>>
    /\ TheField = <<>>
    /\ call.err = <<>>

\* C19: a Generate that fails returns its error with no list of files, and a
\* Cleanup leaves nothing of what the generator wrote on the disk.
C19_FailureLeavesNoArtifact ==
    [][/\ (out'.made /\ out'.err # Nil) => out'.files = <<>>
       /\ Cleanup => DOMAIN disk' = {}]_vars

\* C20: after a Generate that succeeds, no path is twice in the list it
\* returned, and the disk holds the whole code of every object user type of
\* the API: no two of them went to one file and none was removed or
\* overwritten by a later one.
C20_EveryArtifactOnce ==
    (out.made /\ out.err = Nil) =>
        /\ \A i \in DOMAIN out.files, j \in DOMAIN out.files :
              i # j => out.files[i] # out.files[j]
        /\ \A i \in DOMAIN api.Types :
              api.Types[i].IsObject =>
                  \E f \in DOMAIN disk : disk[f] = File(api.Types[i].TypeName, TRUE)

\* C21: no step of the generation changes the design model: the response
\* maps of the resource and of its actions are after every step what they
\* were before it, the merge of the responses of each action included.
C21_DesignModelIsReadOnly == [][resource' = resource]_vars

\* the responses of the resource overridden by those of the action
Overridden(r, a) ==
    [n \in (DOMAIN r.Responses.m) \cup (DOMAIN a.Responses.m) |->
        IF n \in DOMAIN a.Responses.m THEN a.Responses.m[n] ELSE r.Responses.m[n]]

\* C28: the responses generateContexts hands to the writer for an action are
\* the responses of the resource overridden by the action's own: no response
\* that only another action declares is among them.
C28_ResponsesOfTheActionOnly ==
    [][\A j \in DOMAIN api.Versions :
          generateContexts(api.Versions[j]) =>
              \A i \in DOMAIN resource.Actions :
                  contexts'[Len(contexts) + i].Responses.m =
                      Overridden(resource, resource.Actions[i])]_vars

\* the helper was rendered for a response whose media type the API has
BoundToMediaType == MediaTypeWithIdentifier(helper.resp.MediaType) # <<>>

\* C22: a helper bound to a media type writes the body only when the
\* Content-Type header already names the identifier of the media type, and
\* when Dump fails it returns an error with no header set and no body
\* written.
C22_HeaderBeforeBody ==
    /\ [][(BoundToMediaType /\ helper'.resp = helper.resp
           /\ helper'.body # helper.body) =>
              /\ helper.header # <<>>
              /\ helper.header[1][1] = helper.resp.MediaType]_vars
    /\ []((BoundToMediaType /\ helper.dump # Nil) =>
              /\ helper.pc = "returned"
              /\ helper.ret # Nil
              /\ helper.header = <<>>
              /\ helper.body = <<>>)

C22_Witness ==
    /\ BoundToMediaType
    /\ helper.pc = "returned"
    /\ helper.dump = Nil
    /\ helper.header = <<ContentType(helper.resp.MediaType)>>
    /\ helper.body # <<>>
    /\ helper.ret = Nil

\* C23: an Update of a row that storage does not hold returns the error of
\* its fetch and issues no write to storage, whether or not the cache still
\* holds a copy of the row.
C23_UpdateChecksStorage ==
    [][\A id \in Keys, v \in Vals :
          (/\ Update(FixedTable, [ID |-> id, ParentID |-> 0, Val |-> v])
           /\ id \notin DOMAIN Db[Table(FixedTable)]) =>
              /\ ret'.err # Nil
              /\ \A i \in DOMAIN ret'.accesses : ret'.accesses[i].kind # "Updates"
              /\ Db' = Db]_vars

\* the elements of the raw value that do not parse as the kind
Malformed(kind, elems) ==
    SelectSeq(elems, LAMBDA e : Parse(kind, e).err # Nil)

\* C24: for an array parameter whose elements are not strings the constructor
\* returns at most one element error, the one of the first malformed element,
\* however many elements are malformed.
C24_OnlyTheFirstElementError ==
    LET kind == arrayAttribute(TheParam.att).kind
        bad == Malformed(kind, Split(TheRaw, ","))
    IN  (call.made /\ kind # "string" /\ TheRaw # <<>>) =>
            call.err = IF bad = <<>> THEN <<>>
                       ELSE InvalidParamTypeError("elem", bad[1], kind, <<>>)

\* C25: when the coercion of a parameter fails, the validation checks of
\* that parameter add no error: the errors the constructor returns hold no
\* validation error for it.
C25_NoValidationAfterFailedCoercion ==
    (/\ call.made
     /\ TheRaw # <<>>
     /\ Parse(TheParam.att.kind, TheRaw).err # Nil) =>
        \A i \in DOMAIN call.err :
            ~(call.err[i].error = "InvalidRange" /\ call.err[i].name = TheParam.name)

RECURSIVE HasObject(_)
\* the attribute is of kind Object, or an array of such
HasObject(att) ==
    \/ att.kind = "object"
    \/ att.kind = "array" /\ HasObject(arrayAttribute(att))

RECURSIVE HasEmptyFragment(_)
\* the text has a fragment that assigns nothing
HasEmptyFragment(text) ==
    \/ ~text.assigns
    \/ text.body # <<>> /\ HasEmptyFragment(text.body[1])

\* C26: rendering the context of an action with a parameter of kind Object,
\* or an array of such, fails with an error, and no rendered text holds an
\* empty coercion fragment.
C26_ObjectKindIsReported ==
    \A i \in DOMAIN written :
        /\ (\E j \in DOMAIN written[i].data.Params :
               HasObject(written[i].data.Params[j].att)) => written[i].err # Nil
        /\ written[i].err = Nil =>
               \A j \in DOMAIN written[i].text : ~HasEmptyFragment(written[i].text[j])

RECURSIVE Shadows(_, _)
\* a fragment nested in the text declares an identifier that a fragment
\* around it declares
Shadows(text, enclosing) ==
    \/ text.declares \cap enclosing # {}
    \/ text.body # <<>> /\ Shadows(text.body[1], enclosing \cup text.declares)

\* C29: two renderings of one ContextTemplateData in a process give the same
\* text, the names of the temporaries included, whatever was rendered
\* before them, and no fragment declares an identifier of a fragment around
\* it.
C29_RenderingIsDeterministic ==
    /\ \A i \in DOMAIN written, j \in DOMAIN written :
          written[i].data = written[j].data => written[i].text = written[j].text
    /\ \A i \in DOMAIN written :
          \A j \in DOMAIN written[i].text : ~Shadows(written[i].text[j], {})

\* C27: IsPathParam(p) is true exactly when the params attribute is an
\* object, the action has a route, and every route of the action has p among
\* its path parameters.
C27_PathParamOfEveryRoute ==
    call.made =>
        (call.pp <=> /\ data.Type = "object"
                     /\ data.Routes # <<>>
                     /\ \A i \in DOMAIN data.Routes : call.param \in data.Routes[i])

C27_Witness ==
    /\ call.made
    /\ call.pp
    /\ Len(data.Routes) = 2
    /\ data.Routes[1] # data.Routes[2]

\* C30: the Cleanup that a signal starts never runs between the read and
\* the write of an append to g.genfiles, and a pass that goes on after that
\* Cleanup returns an empty list.
C30_CleanupExcludesAppends ==
    /\ ~pass.raced
    /\ (pass.catch = "done" /\ pass.pc = "returned") => out.files = <<>>

====
